---- MODULE Spec2Model ----
(***************************************************************************)
(* The PodSet controller (controllers/podset_controller.go) as a state     *)
(* machine.  The state is the cluster store (PodSets and pods), the work   *)
(* queue of the dispatcher, and for every PodSet key the position and the  *)
(* local variables of its Reconcile pass.  Every store call of Reconcile   *)
(* (Get, List, Status().Update, Delete, Create) is one atomic step: the    *)
(* store calls are the only points where a pass can be suspended.          *)
(***************************************************************************)
EXTENDS Integers, Sequences, FiniteSets, TLC

VARIABLES
    podsets,   \* the store's PodSet resources: key -> [replicas, status]
    pods,      \* the store's pods: pod id -> pod
    nextId,    \* the suffix the store gives the next generated pod name
    queued,    \* the dispatcher's work queue: key -> BOOLEAN
    pass,      \* key -> position and locals of the key's Reconcile pass
    hist       \* key -> what earlier passes of the key returned (history)

vars == <<podsets, pods, nextId, queued, pass, hist>>

----------------------------------------------------------------------------
\* Bounds of the model.

\* The pods the store has room for: those it holds at the start and those
\* created later.
MaxPods == 3

\* spec.replicas: +kubebuilder:validation:Minimum / Maximum.
MinReplicas == 1
MaxReplicas == 10
\* The largest desired count the model draws.
MaxDesired == 3

\* The desired counts of the model: valid values of spec.replicas.
Desired == {n \in MinReplicas..MaxReplicas : n <= MaxDesired}

----------------------------------------------------------------------------
\* Identities.

K1 == [namespace |-> "ns1", name |-> "a"]
K2 == [namespace |-> "ns1", name |-> "b"]
K3 == [namespace |-> "ns2", name |-> "a"]

\* The keys the dispatcher hands to Reconcile (req.NamespacedName) are the
\* keys of a specification: the domain of queued, pass and hist.

\* corev1.PodPhase
PodPending == "Pending"
PodRunning == "Running"
PodSucceeded == "Succeeded"
PodFailed == "Failed"
PodUnknown == "Unknown"
Phases == {PodPending, PodRunning, PodSucceeded, PodFailed, PodUnknown}

\* The controller reference of a pod: the empty set, or the one owner's key.
NoOwner == {}
OwnedBy(k) == {k}

\* PodSetStatus.  PodNames is a Go slice: nil and the empty slice are
\* different values for reflect.DeepEqual.
NilNames == [isNil |-> TRUE, names |-> <<>>]
Names(s) == [isNil |-> FALSE, names |-> s]
EmptyStatus == [PodNames |-> NilNames, AvailableReplicas |-> 0]

Range(s) == {s[i] : i \in DOMAIN s}

\* The orders in which a list call may return the pods of set S.
Orderings(S) ==
    {o \in [1..Cardinality(S) -> S] : \A i, j \in DOMAIN o : o[i] = o[j] => i = j}

----------------------------------------------------------------------------
\* The pure parts of Reconcile.

\* Pod labels with a version other than the selector's.
PodLabelsOtherVersion(name) == [app |-> name, version |-> "v0.2"]

\* A selector built without the app label: the version alone.
SelectorLabelsVersionOnly(name) == [version |-> "v0.1"]

\* podSetLabels of Reconcile and of newPodForCR: the same two pairs, built
\* twice in the source.
SelectorLabels(name) == [app |-> name, version |-> "v0.1"]
PodLabels(name) == [app |-> name, version |-> "v0.1"]

\* labels.SelectorFromSet(set).Matches(labels): every pair of the set is a
\* pair of the pod's labels; the pod may carry more.
SelectorMatches(set, labels) ==
    \A key \in DOMAIN set : key \in DOMAIN labels /\ labels[key] = set[key]

\* List options without the namespace: the selector alone.
ListOptsMatchAnyNamespace(k, pod) ==
    SelectorMatches([app |-> k.name, version |-> "v0.1"], pod.labels)

\* client.ListOptions{Namespace, LabelSelector} applied to one pod.
ListOptsMatch(k, pod) ==
    /\ pod.namespace = k.namespace
    /\ SelectorMatches(SelectorLabels(k.name), pod.labels)

\* IsAvailable without the test of the deletion timestamp.
IsAvailableIgnoringDeletion(pod) ==
    pod.phase = PodRunning \/ pod.phase = PodPending

\* IsAvailable with a phase test that only rules out failed pods.
IsAvailableUnlessFailed(pod) ==
    /\ ~pod.deleted
    /\ pod.phase # PodFailed

\* The test of the counting loop: no deletion timestamp, Running or Pending.
IsAvailable(pod) ==
    /\ ~pod.deleted
    /\ pod.phase = PodRunning \/ pod.phase = PodPending

\* A counting loop with no test in its body: every listed pod is taken as
\* available.
AvailableUntested(podList) == podList

\* available: the listed pods that pass the test, in listing order.
Available(podList) == SelectSeq(podList, IsAvailable)

\* availableNames
AvailableNames(available) == [i \in 1..Len(available) |-> available[i].name]

\* A status whose names start as a nil slice (var availableNames []string).
ComputedStatusNilWhenEmpty(available) ==
    [PodNames |-> IF Len(available) = 0 THEN NilNames
                  ELSE Names(AvailableNames(available)),
     AvailableReplicas |-> Len(available)]

\* status := PodSetStatus{PodNames: availableNames, AvailableReplicas: numAvailable}
\* availableNames starts as []string{}, so it is never nil.
ComputedStatus(available) ==
    [PodNames |-> Names(AvailableNames(available)),
     AvailableReplicas |-> Len(available)]

\* A comparison that never finds the two statuses equal (the slices compared
\* by identity).
DeepEqualByIdentity(s, t) == FALSE

\* A comparison by length and elements, for which a nil slice equals an
\* empty one.
DeepEqualNilIsEmpty(s, t) ==
    /\ s.AvailableReplicas = t.AvailableReplicas
    /\ s.PodNames.names = t.PodNames.names

\* A comparison of the counts alone.
DeepEqualCountOnly(s, t) == s.AvailableReplicas = t.AvailableReplicas

\* reflect.DeepEqual on PodSetStatus: a nil slice equals only a nil slice.
DeepEqual(s, t) ==
    /\ s.AvailableReplicas = t.AvailableReplicas
    /\ s.PodNames.isNil = t.PodNames.isNil
    /\ s.PodNames.names = t.PodNames.names

\* The comparisons with a scale-down test that is off by one.
DecideStrictExcess(numAvailable, replicas) ==
    IF numAvailable > replicas + 1 THEN "delete"
    ELSE IF numAvailable < replicas THEN "create"
    ELSE "done"

\* The comparisons with a scale-up test that also holds at the desired count.
DecideCreateAtOrBelow(numAvailable, replicas) ==
    IF numAvailable > replicas THEN "delete"
    ELSE IF numAvailable <= replicas THEN "create"
    ELSE "done"

\* The comparisons with a scale-up test that is off by one.
DecideOffByOne(numAvailable, replicas) ==
    IF numAvailable > replicas THEN "delete"
    ELSE IF numAvailable + 1 < replicas THEN "create"
    ELSE "done"

\* The two comparisons of numAvailable with Spec.Replicas.
Decide(numAvailable, replicas) ==
    IF numAvailable > replicas THEN "delete"
    ELSE IF numAvailable < replicas THEN "create"
    ELSE "done"

\* dpods := available[:diff]
Dpods(available, replicas) == SubSeq(available, 1, Len(available) - replicas)

\* newPodForCR: the pod template for the PodSet with key k.
newPodForCR(k) ==
    [generateName |-> k.name \o "-pod",
     namespace |-> k.namespace,
     labels |-> PodLabels(k.name),
     owner |-> NoOwner]

\* A pod sent to the store without the controller reference.
SetControllerReferenceOmitted(k, pod) == pod

\* controllerutil.SetControllerReference(podSet, pod, r.Scheme)
SetControllerReference(k, pod) == [pod EXCEPT !.owner = OwnedBy(k)]

\* What the store makes of a created pod: GenerateName plus a fresh suffix,
\* phase Pending, no deletion timestamp.
StoredPod(spec, id) ==
    [id |-> id,
     name |-> <<spec.generateName, id>>,
     namespace |-> spec.namespace,
     labels |-> spec.labels,
     owner |-> spec.owner,
     phase |-> PodPending,
     deleted |-> FALSE]

----------------------------------------------------------------------------
\* The locals of one Reconcile pass.

NoInstance == [replicas |-> 0, status |-> EmptyStatus]

\* A store call of the pass: the operation, the pod it is about (0: none) and
\* its outcome, "ok", "notfound" or "error".
Call(op, id, res) == [op |-> op, id |-> id, res |-> res]

\* pc: "idle" (no pass yet), "list", "update", "delete", "create" (the store
\* call the pass is about to make), "returned" (the pass has returned; its
\* locals are kept until the next pass of the key starts).
\* clean: no actor other than the controller has changed the store since
\* the pass started.
IdlePass ==
    [pc |-> "idle",
     instance |-> NoInstance,
     podList |-> <<>>,
     available |-> <<>>,
     status |-> EmptyStatus,
     idx |-> 0,
     calls |-> <<>>,
     result |-> "none",
     clean |-> TRUE]

NoHist == [completed |-> FALSE, done |-> FALSE, deleteFailed |-> FALSE]

\* hist[k] records what the passes of k that returned before the current one
\* have shown since the last change of the store by another actor; it is
\* brought up to date when a pass starts.
HistAtStart(k) ==
    LET p == pass[k] IN
    [hist EXCEPT ![k] =
        IF p.pc = "returned" /\ p.clean
        THEN [completed |-> @.completed \/ p.result # "error",
              done |-> @.done \/ p.result = "done",
              deleteFailed |-> @.deleteFailed \/
                  \E i \in DOMAIN p.calls :
                      p.calls[i].op = "delete" /\ p.calls[i].res # "ok"]
        ELSE @]

\* The pass of key k goes on as p, towards its next store call.
Continue(k, p, q, h) ==
    /\ pass' = [pass EXCEPT ![k] = p]
    /\ queued' = q
    /\ hist' = h

\* The pass of key k returns res: "done" is ctrl.Result{}, nil; "requeue" is
\* ctrl.Result{Requeue: true}, nil; "error" is ctrl.Result{}, err.  The
\* dispatcher puts the key back on the queue after a requeue or an error.
Return(k, p, res, q, h) ==
    /\ pass' = [pass EXCEPT ![k] = [p EXCEPT !.pc = "returned", !.result = res]]
    /\ queued' = [q EXCEPT ![k] = @ \/ res \in {"requeue", "error"}]
    /\ hist' = h

\* The pass goes on after the status has been dealt with: lines 114-144 up to
\* the next store call.
AfterStatus(k, p) ==
    LET d == Decide(Len(p.available), p.instance.replicas) IN
    IF d = "done"
    THEN Return(k, p, "done", queued, hist)
    ELSE Continue(k, [p EXCEPT !.pc = d, !.idx = IF d = "delete" THEN 1 ELSE 0],
                  queued, hist)

----------------------------------------------------------------------------
\* Reconcile, one action per store call.

\* Reconcile without the IsNotFound test: NotFound is returned as an error.
GetNotFoundAsError(k, p, q, h) == Return(k, p, "error", q, h)

\* errors.IsNotFound(err): "if not found maybe its been deleted, dont
\* requeue": return ctrl.Result{}, nil.
GetNotFound(k, p, q, h) == Return(k, p, "done", q, h)

\* r.Get succeeds or reports NotFound.  The dispatcher takes the key off the
\* queue and starts the pass; passes of one key never overlap.
Get(k) ==
    /\ queued[k]
    /\ pass[k].pc \in {"idle", "returned"}
    /\ LET q == [queued EXCEPT ![k] = FALSE]
           h == HistAtStart(k)
           found == k \in DOMAIN podsets
           p == [IdlePass EXCEPT !.calls =
                    <<Call("get", 0, IF found THEN "ok" ELSE "notfound")>>]
       IN  IF found
           THEN Continue(k, [p EXCEPT !.pc = "list", !.instance = podsets[k]], q, h)
           ELSE GetNotFound(k, p, q, h)
    /\ UNCHANGED <<podsets, pods, nextId>>

\* Reconcile with no return after the error of r.Get: the pass goes on to
\* the listing with the empty instance.
GetErrorGoesOn(k) ==
    /\ queued[k]
    /\ pass[k].pc \in {"idle", "returned"}
    /\ Continue(k, [IdlePass EXCEPT !.pc = "list",
                                    !.calls = <<Call("get", 0, "error")>>],
                [queued EXCEPT ![k] = FALSE], HistAtStart(k))
    /\ UNCHANGED <<podsets, pods, nextId>>

\* r.Get fails with an error other than NotFound.
GetError(k) ==
    /\ queued[k]
    /\ pass[k].pc \in {"idle", "returned"}
    /\ Return(k, [IdlePass EXCEPT !.calls = <<Call("get", 0, "error")>>], "error",
              [queued EXCEPT ![k] = FALSE], HistAtStart(k))
    /\ UNCHANGED <<podsets, pods, nextId>>

\* r.List succeeds: the pods of the namespace that the selector matches, in
\* an order of the store's choosing; then the counting loop, the status
\* comparison and, when the status is as stored, the scaling decision.
List(k) ==
    /\ pass[k].pc = "list"
    /\ \E order \in Orderings({id \in DOMAIN pods : ListOptsMatch(k, pods[id])}) :
         LET podList == [i \in DOMAIN order |-> pods[order[i]]]
             available == Available(podList)
             status == ComputedStatus(available)
             p == [pass[k] EXCEPT !.podList = podList,
                                  !.available = available,
                                  !.status = status,
                                  !.calls = Append(@, Call("list", 0, "ok"))]
         IN  IF ~DeepEqual(p.instance.status, status)
             THEN Continue(k, [p EXCEPT !.pc = "update"], queued, hist)
             ELSE AfterStatus(k, p)
    /\ UNCHANGED <<podsets, pods, nextId>>

\* A listing whose error is not tested: the pass goes on with the empty list.
ListErrorAsEmpty(k) ==
    /\ pass[k].pc = "list"
    /\ LET p == [pass[k] EXCEPT !.status = ComputedStatus(<<>>),
                                !.calls = Append(@, Call("list", 0, "error"))]
       IN  IF ~DeepEqual(p.instance.status, p.status)
           THEN Continue(k, [p EXCEPT !.pc = "update"], queued, hist)
           ELSE AfterStatus(k, p)
    /\ UNCHANGED <<podsets, pods, nextId>>

\* r.List fails.
ListError(k) ==
    /\ pass[k].pc = "list"
    /\ Return(k, [pass[k] EXCEPT !.calls = Append(@, Call("list", 0, "error"))],
              "error", queued, hist)
    /\ UNCHANGED <<podsets, pods, nextId>>

\* A status update that changes the local object only and never reaches the
\* store's status subresource.
StatusUpdateNotStored(k) ==
    /\ pass[k].pc = "update"
    /\ k \in DOMAIN podsets
    /\ AfterStatus(k, [pass[k] EXCEPT !.instance.status = pass[k].status,
                                      !.calls = Append(@, Call("update", 0, "ok"))])
    /\ UNCHANGED <<podsets, pods, nextId>>

\* An update of the whole object (r.Update) in place of the status
\* subresource: the store takes spec and status of the object sent.
StatusUpdateWholeObject(k) ==
    /\ pass[k].pc = "update"
    /\ k \in DOMAIN podsets
    /\ LET p == [pass[k] EXCEPT !.instance.status = pass[k].status,
                                !.calls = Append(@, Call("update", 0, "ok"))]
       IN  /\ podsets' = [podsets EXCEPT ![k] = p.instance]
           /\ AfterStatus(k, p)
    /\ UNCHANGED <<pods, nextId>>

\* r.Status().Update succeeds: the store takes the status of the object sent
\* (the status subresource leaves spec alone).  The store refuses the update
\* of a PodSet that is gone.
StatusUpdate(k) ==
    /\ pass[k].pc = "update"
    /\ k \in DOMAIN podsets
    /\ LET p == [pass[k] EXCEPT !.instance.status = pass[k].status,
                                !.calls = Append(@, Call("update", 0, "ok"))]
       IN  /\ podsets' = [podsets EXCEPT ![k].status = p.status]
           /\ AfterStatus(k, p)
    /\ UNCHANGED <<pods, nextId>>

\* A failed status update that is logged and not returned: the pass goes on
\* to the scaling decision.
StatusUpdateErrorGoesOn(k) ==
    /\ pass[k].pc = "update"
    /\ AfterStatus(k, [pass[k] EXCEPT !.instance.status = pass[k].status,
                                      !.calls = Append(@, Call("update", 0, "error"))])
    /\ UNCHANGED <<podsets, pods, nextId>>

\* A failed status update that is logged and returned as ctrl.Result{}, nil.
StatusUpdateErrorSwallowed(k) ==
    /\ pass[k].pc = "update"
    /\ Return(k, [pass[k] EXCEPT !.instance.status = pass[k].status,
                                 !.calls = Append(@, Call("update", 0, "error"))],
              "done", queued, hist)
    /\ UNCHANGED <<podsets, pods, nextId>>

\* r.Status().Update fails: the error is logged and returned.
StatusUpdateError(k) ==
    /\ pass[k].pc = "update"
    /\ Return(k, [pass[k] EXCEPT !.instance.status = pass[k].status,
                                 !.calls = Append(@, Call("update", 0, "error"))],
              "error", queued, hist)
    /\ UNCHANGED <<podsets, pods, nextId>>

\* A delete branch that does not return and runs into the creation.
AfterDeleteGoesOn(k, p) == Continue(k, [p EXCEPT !.pc = "create"], queued, hist)

\* A delete that succeeded and returns ctrl.Result{}, nil: no requeue.
AfterDeleteNoRequeue(k, p) == Return(k, p, "done", queued, hist)

\* A delete after which the pass writes the status again before it returns.
AfterDeleteUpdatesStatus(k, p) == Continue(k, [p EXCEPT !.pc = "update"], queued, hist)

\* The loop body after a delete that succeeded: return ctrl.Result{Requeue:
\* true}, nil (line 125, inside the loop).
AfterDelete(k, p) == Return(k, p, "requeue", queued, hist)

\* A loop over available in place of dpods, with no return in its body:
\* every available pod of the listing is deleted.
DeleteAllAvailable(k) ==
    /\ pass[k].pc = "delete"
    /\ LET ids == {pass[k].available[i].id : i \in DOMAIN pass[k].available}
           p == [pass[k] EXCEPT !.calls =
                    @ \o [i \in DOMAIN pass[k].available |->
                             Call("delete", pass[k].available[i].id, "ok")]]
       IN  /\ pods' = [id \in DOMAIN pods |->
                          IF id \in ids THEN [pods[id] EXCEPT !.deleted = TRUE]
                          ELSE pods[id]]
           /\ Return(k, p, "requeue", queued, hist)
    /\ UNCHANGED <<podsets, nextId>>

\* r.Delete(&dpod) for the pod the loop over dpods stands at.  The store marks
\* the pod for deletion (it stays listed until it is finalized) and reports
\* NotFound for a pod that is gone.  The loop body returns after its first
\* delete, whatever its outcome, so idx never moves past 1.
Delete(k) ==
    /\ pass[k].pc = "delete"
    /\ LET dpod == Dpods(pass[k].available, pass[k].instance.replicas)[pass[k].idx]
           found == dpod.id \in DOMAIN pods
           p == [pass[k] EXCEPT !.calls =
                    Append(@, Call("delete", dpod.id, IF found THEN "ok" ELSE "notfound"))]
       IN  IF found
           THEN /\ pods' = [pods EXCEPT ![dpod.id].deleted = TRUE]
                /\ AfterDelete(k, p)
           ELSE /\ pods' = pods
                /\ Return(k, p, "error", queued, hist)
    /\ UNCHANGED <<podsets, nextId>>

\* r.Delete fails: the error is logged and returned.
DeleteError(k) ==
    /\ pass[k].pc = "delete"
    /\ LET dpod == Dpods(pass[k].available, pass[k].instance.replicas)[pass[k].idx]
       IN  Return(k, [pass[k] EXCEPT !.calls = Append(@, Call("delete", dpod.id, "error"))],
                  "error", queued, hist)
    /\ UNCHANGED <<podsets, pods, nextId>>

\* A creation that returns ctrl.Result{}, nil: no requeue is asked for.
AfterCreateNoRequeue(k, p) == Return(k, p, "done", queued, hist)

\* A creation in a loop over the deficit: after a create that succeeded the
\* pass creates again.
AfterCreateGoesOn(k, p) == Continue(k, [p EXCEPT !.pc = "create"], queued, hist)

\* After a create that succeeded: return ctrl.Result{Requeue: true}, nil.
AfterCreate(k, p) == Return(k, p, "requeue", queued, hist)

\* newPodForCR, SetControllerReference and r.Create succeed.  The store has
\* room for MaxPods generated names; it refuses a pod beyond that.
Create(k) ==
    /\ pass[k].pc = "create"
    /\ LET pod == SetControllerReference(k, newPodForCR(k))
           room == nextId <= MaxPods
           p == [pass[k] EXCEPT !.calls =
                    Append(@, Call("create", IF room THEN nextId ELSE 0,
                                   IF room THEN "ok" ELSE "error"))]
       IN  IF room
           THEN /\ pods' = (nextId :> StoredPod(pod, nextId)) @@ pods
                /\ nextId' = nextId + 1
                /\ AfterCreate(k, p)
           ELSE /\ UNCHANGED <<pods, nextId>>
                /\ Return(k, p, "error", queued, hist)
    /\ UNCHANGED podsets

\* A failed creation that is logged and answered with a requeue.
CreateErrorRequeues(k) ==
    /\ pass[k].pc = "create"
    /\ \/ Return(k, pass[k], "requeue", queued, hist)
       \/ Return(k, [pass[k] EXCEPT !.calls = Append(@, Call("create", 0, "error"))],
                 "requeue", queued, hist)
    /\ UNCHANGED <<podsets, pods, nextId>>

\* SetControllerReference fails (no create call is made), or r.Create fails.
CreateError(k) ==
    /\ pass[k].pc = "create"
    /\ \/ Return(k, pass[k], "error", queued, hist)
       \/ Return(k, [pass[k] EXCEPT !.calls = Append(@, Call("create", 0, "error"))],
                 "error", queued, hist)
    /\ UNCHANGED <<podsets, pods, nextId>>

----------------------------------------------------------------------------
\* The dispatcher and the other actors of the cluster.

\* An actor other than the controller has changed the store: no pass in
\* flight is clean any more, and the history starts again.  q is the queue
\* after the events of the change.
Outside(q) ==
    /\ pass' = [k \in DOMAIN pass |-> [pass[k] EXCEPT !.clean = FALSE]]
    /\ hist' = [k \in DOMAIN hist |-> NoHist]
    /\ queued' = q

\* A controller that does not watch the pods it owns: an event on a pod puts
\* no key on the queue.
OwnerKeysNone(pod) == {}

\* The keys that an event on pod `pod` puts on the queue: Owns(&corev1.Pod{})
\* maps a pod to its controller owner.
OwnerKeys(pod) == pod.owner \cap DOMAIN queued

\* For(&PodSet{}) and Owns(&corev1.Pod{}): the dispatcher may call Reconcile
\* for a key at any time (an event, a resync).
Trigger(k) ==
    /\ ~queued[k]
    /\ queued' = [queued EXCEPT ![k] = TRUE]
    /\ UNCHANGED <<podsets, pods, nextId, pass, hist>>

\* The controller process stops in the middle of a pass: the locals of the
\* pass are lost, the store keeps what the pass has written, and after the
\* restart the dispatcher queues the PodSet again.
Crash(k) ==
    /\ pass[k].pc \in {"list", "update", "delete", "create"}
    /\ pass' = [pass EXCEPT ![k] = IdlePass]
    /\ queued' = [queued EXCEPT ![k] = TRUE]
    /\ UNCHANGED <<podsets, pods, nextId, hist>>

\* kubectl patch podset ... /spec/replicas
SetReplicas(k, n) ==
    /\ k \in DOMAIN podsets
    /\ podsets[k].replicas # n
    /\ podsets' = [podsets EXCEPT ![k].replicas = n]
    /\ Outside([queued EXCEPT ![k] = TRUE])
    /\ UNCHANGED <<pods, nextId>>

\* kubectl delete podset
DeletePodSet(k) ==
    /\ k \in DOMAIN podsets
    /\ podsets' = [j \in DOMAIN podsets \ {k} |-> podsets[j]]
    /\ Outside([queued EXCEPT ![k] = TRUE])
    /\ UNCHANGED <<pods, nextId>>

\* The phase of a pod changes (the node reports it).
SetPhase(id, phase) ==
    /\ id \in DOMAIN pods
    /\ pods[id].phase # phase
    /\ pods' = [pods EXCEPT ![id].phase = phase]
    /\ Outside([k \in DOMAIN queued |-> queued[k] \/ k \in OwnerKeys(pods[id])])
    /\ UNCHANGED <<podsets, nextId>>

\* kubectl delete pod: the store marks the pod for deletion.
MarkDeleted(id) ==
    /\ id \in DOMAIN pods
    /\ ~pods[id].deleted
    /\ pods' = [pods EXCEPT ![id].deleted = TRUE]
    /\ Outside([k \in DOMAIN queued |-> queued[k] \/ k \in OwnerKeys(pods[id])])
    /\ UNCHANGED <<podsets, nextId>>

\* The store finalizes a pod marked for deletion: the pod is gone.
Remove(id) ==
    /\ id \in DOMAIN pods
    /\ pods[id].deleted
    /\ pods' = [j \in DOMAIN pods \ {id} |-> pods[j]]
    /\ Outside([k \in DOMAIN queued |-> queued[k] \/ k \in OwnerKeys(pods[id])])
    /\ UNCHANGED <<podsets, nextId>>

\* The store's cascading deletion ("thanks to OwnerReferences, all of the
\* pods should be deleted"): a pod whose controller owner is gone is marked
\* for deletion; Remove finalizes it.
Cascade(id) ==
    /\ id \in DOMAIN pods
    /\ ~pods[id].deleted
    /\ pods[id].owner # NoOwner
    /\ pods[id].owner \cap DOMAIN podsets = {}
    /\ pods' = [pods EXCEPT ![id].deleted = TRUE]
    /\ Outside([k \in DOMAIN queued |-> queued[k] \/ k \in OwnerKeys(pods[id])])
    /\ UNCHANGED <<podsets, nextId>>

----------------------------------------------------------------------------
\* Specifications.

\* A pod that is in the store at the start.
InitPod(kind, id) ==
    [id |-> id,
     name |-> <<"pod", id>>,
     namespace |-> kind.namespace,
     labels |-> kind.labels,
     owner |-> kind.owner,
     phase |-> kind.phase,
     deleted |-> kind.deleted]

\* The non-decreasing maps of 1..n into 1..m: one choice of n pods among m
\* kinds for every multiset of kinds (which pod gets which id is immaterial).
Sorted(n, m) == {f \in [1..n -> 1..m] : \A i \in 1..n, j \in 1..n : i <= j => f[i] <= f[j]}

\* The start: the keys `keys` are queued and none has a pass; the PodSets of
\* one of the key sets of `present` exist, each new (no status yet) with a
\* desired count; the store holds up to MaxPods pods of the kinds of the
\* sequence `kinds`.
InitOver(keys, present, kinds) ==
    /\ \E ks \in present :
         podsets \in [ks -> [replicas : Desired, status : {EmptyStatus}]]
    /\ \E n \in 0..MaxPods : \E f \in Sorted(n, Len(kinds)) :
         /\ pods = [i \in 1..n |-> InitPod(kinds[f[i]], i)]
         /\ nextId = n + 1
    /\ queued = [k \in keys |-> TRUE]
    /\ pass = [k \in keys |-> IdlePass]
    /\ hist = [k \in keys |-> NoHist]

\* A pod that the selector of PodSet k matches and that k owns.
OwnKind(k, phase, deleted) ==
    [namespace |-> k.namespace, labels |-> PodLabels(k.name), owner |-> OwnedBy(k),
     phase |-> phase, deleted |-> deleted]

\* Pods of PodSet K1 in every phase, marked for deletion or not.
OwnKinds ==
    <<OwnKind(K1, PodRunning, FALSE), OwnKind(K1, PodPending, FALSE),
      OwnKind(K1, PodSucceeded, FALSE), OwnKind(K1, PodFailed, FALSE),
      OwnKind(K1, PodUnknown, FALSE),
      OwnKind(K1, PodRunning, TRUE), OwnKind(K1, PodPending, TRUE),
      OwnKind(K1, PodSucceeded, TRUE), OwnKind(K1, PodFailed, TRUE),
      OwnKind(K1, PodUnknown, TRUE)>>

Init == InitOver({K1}, {{K1}, {}}, OwnKinds)

\* The tutorial's sample PodSet: spec.replicas: 3.
SampleReplicas == 3

\* The start of a run to convergence: the PodSet K1 is new and queued, with
\* any desired count, among up to MaxPods available pods of its own.  The
\* tutorial's run starts with SampleReplicas and no pod.
InitConv ==
    InitOver({K1}, {{K1}}, <<OwnKind(K1, PodRunning, FALSE), OwnKind(K1, PodPending, FALSE)>>)

\* Pods in and out of the reach of K1's list options: K2's pods carry another
\* app label, K3's pods carry K1's labels in another namespace.
ForeignKind(namespace, labels) ==
    [namespace |-> namespace, labels |-> labels, owner |-> NoOwner,
     phase |-> PodRunning, deleted |-> FALSE]

MixedKinds ==
    <<OwnKind(K1, PodRunning, FALSE),
      OwnKind(K2, PodRunning, FALSE),
      OwnKind(K3, PodRunning, FALSE),
      ForeignKind("ns1", [app |-> "a", version |-> "v0.2"]),
      ForeignKind("ns1", [app |-> "a"]),
      ForeignKind("ns1", [app |-> "a", version |-> "v0.1", tier |-> "x"])>>

InitOwn == InitOver({K1}, {{K1}}, MixedKinds)

\* The pass of one key.
Pass(k) ==
    \/ Get(k)
    \/ List(k)
    \/ StatusUpdate(k)
    \/ Delete(k)
    \/ Create(k)

\* The steps of the passes: the store calls that succeed, and those that fail.
Reconcile ==
    \/ \E k \in DOMAIN pass : Get(k)
    \/ \E k \in DOMAIN pass : List(k)
    \/ \E k \in DOMAIN pass : StatusUpdate(k)
    \/ \E k \in DOMAIN pass : Delete(k)
    \/ \E k \in DOMAIN pass : Create(k)

ReconcileError ==
    \/ \E k \in DOMAIN pass : GetError(k)
    \/ \E k \in DOMAIN pass : ListError(k)
    \/ \E k \in DOMAIN pass : StatusUpdateError(k)
    \/ \E k \in DOMAIN pass : DeleteError(k)
    \/ \E k \in DOMAIN pass : CreateError(k)

Next ==
    \/ Reconcile
    \/ ReconcileError
    \/ \E k \in DOMAIN pass : Trigger(k)
    \/ \E k \in DOMAIN pass : DeletePodSet(k)

Spec == Init /\ [][Next]_vars

\* A run to convergence: no store call fails, a pending pod may start
\* running, the dispatcher may call at any time.
NextConv ==
    \/ Reconcile
    \/ \E k \in DOMAIN pass : Trigger(k)
    \/ \E id \in DOMAIN pods : pods[id].phase = PodPending /\ SetPhase(id, PodRunning)

\* The dispatcher runs a queued key, and every store call returns.
SpecConv == InitConv /\ [][NextConv]_vars /\ \A k \in {K1} : WF_vars(Pass(k))

\* The PodSet K1 among pods of several namespaces and label sets.
NextOwn ==
    \/ Reconcile
    \/ ReconcileError
    \/ \E k \in DOMAIN pass : Trigger(k)

SpecOwn == InitOwn /\ [][NextOwn]_vars

\* Two PodSets side by side: K1 with K2 (same namespace, another name) or K1
\* with K3 (same name, another namespace), both new and queued, among
\* available pods of the two.
InitTwo ==
    \E other \in {K2, K3} :
        InitOver({K1, other}, {{K1, other}},
                 <<OwnKind(K1, PodRunning, FALSE), OwnKind(other, PodRunning, FALSE)>>)

\* The passes of the two keys interleave at every store call.
NextTwo ==
    \/ Reconcile
    \/ \E k \in DOMAIN pass : Trigger(k)

SpecTwo == InitTwo /\ [][NextTwo]_vars

\* The available pods of the store in the reach of the list options of k.
AvailableIds(k) ==
    {id \in DOMAIN pods : ListOptsMatch(k, pods[id]) /\ IsAvailable(pods[id])}

\* kubectl patch raises spec.replicas of a PodSet whose stored status counts
\* its available pods, as many as desired; the store has room for the pods
\* of the new count.
RaiseReplicas(k, n) ==
    /\ k \in DOMAIN podsets
    /\ n > podsets[k].replicas
    /\ podsets[k].status.AvailableReplicas = podsets[k].replicas
    /\ Cardinality(AvailableIds(k)) = podsets[k].replicas
    /\ nextId + (n - podsets[k].replicas) - 1 <= MaxPods
    /\ SetReplicas(k, n)

\* A run in which the desired count is raised: no store call fails, a pending
\* pod may start running, the dispatcher may call at any time.
NextScale ==
    \/ Reconcile
    \/ \E k \in DOMAIN pass : Trigger(k)
    \/ \E id \in DOMAIN pods : pods[id].phase = PodPending /\ SetPhase(id, PodRunning)
    \/ \E k \in DOMAIN pass : \E n \in Desired : RaiseReplicas(k, n)

SpecScale == InitConv /\ [][NextScale]_vars /\ \A k \in {K1} : WF_vars(Pass(k))

\* The PodSet may be deleted at any time; the store then collects the pods
\* it owns, and finalizes the pods marked for deletion.
NextGC ==
    \/ Reconcile
    \/ ReconcileError
    \/ \E k \in DOMAIN pass : Trigger(k)
    \/ \E k \in DOMAIN pass : DeletePodSet(k)
    \/ \E id \in DOMAIN pods : Cascade(id)
    \/ \E id \in DOMAIN pods : Remove(id)

\* The store's collector does not stop: it marks every pod whose owner is
\* gone and finalizes every marked pod.
SpecGC ==
    /\ InitConv
    /\ [][NextGC]_vars
    /\ \A id \in 1..MaxPods : WF_vars(Cascade(id)) /\ WF_vars(Remove(id))

\* The desired count may be patched at any time, also in the middle of a
\* pass.
NextPatch ==
    \/ Reconcile
    \/ ReconcileError
    \/ \E k \in DOMAIN pass : Trigger(k)
    \/ \E k \in DOMAIN pass : \E n \in Desired : SetReplicas(k, n)

SpecPatch == InitConv /\ [][NextPatch]_vars

\* The corrective action of a pass may fail, the controller may crash in the
\* middle of a pass, and a pod may fail at any time.
NextHeal ==
    \/ Reconcile
    \/ \E k \in DOMAIN pass : DeleteError(k)
    \/ \E k \in DOMAIN pass : CreateError(k)
    \/ \E k \in DOMAIN pass : Trigger(k)
    \/ \E k \in DOMAIN pass : Crash(k)
    \/ \E id \in DOMAIN pods : SetPhase(id, PodFailed)

\* The dispatcher runs a queued key, and a store call that does not fail
\* returns.
SpecHeal == InitConv /\ [][NextHeal]_vars /\ \A k \in {K1} : WF_vars(Pass(k))

\* PodSet k has as many available pods as desired, counted in its stored
\* status, pod id is one of them, and the store has room for a replacement.
MayLose(k, id) ==
    /\ k \in DOMAIN podsets
    /\ podsets[k].status.AvailableReplicas = podsets[k].replicas
    /\ Cardinality(AvailableIds(k)) = podsets[k].replicas
    /\ id \in AvailableIds(k)
    /\ nextId <= MaxPods

\* A run in which available pods are lost: no store call fails, a pending
\* pod may start running, the dispatcher may call at any time, and an
\* available pod of a converged PodSet may end, fail, become unknown or be
\* deleted by another actor.
NextLoss ==
    \/ Reconcile
    \/ \E k \in DOMAIN pass : Trigger(k)
    \/ \E id \in DOMAIN pods : pods[id].phase = PodPending /\ SetPhase(id, PodRunning)
    \/ \E k \in DOMAIN pass : \E id \in DOMAIN pods :
           \E phase \in {PodFailed, PodSucceeded, PodUnknown} :
               MayLose(k, id) /\ SetPhase(id, phase)
    \/ \E k \in DOMAIN pass : \E id \in DOMAIN pods : MayLose(k, id) /\ MarkDeleted(id)

SpecLoss == InitConv /\ [][NextLoss]_vars /\ \A k \in {K1} : WF_vars(Pass(k))

----------------------------------------------------------------------------
\* What the claims speak of.

\* The pass of k has returned (and no later pass of k has started).
Returned(k) == pass[k].pc = "returned"

\* The pass of k has its listing.
Listed(k) == \E i \in DOMAIN pass[k].calls :
                pass[k].calls[i].op = "list" /\ pass[k].calls[i].res = "ok"

\* The calls of kind op that the pass of k has made, in order.
CallsOf(k, op) == SelectSeq(pass[k].calls, LAMBDA c : c.op = op)

\* The pods that the calls of kind op of the pass of k were about.
PodsOf(k, op) == [i \in DOMAIN CallsOf(k, op) |-> CallsOf(k, op)[i].id]

\* No store call of the pass of k has failed.
NoCallFailed(k) == \A i \in DOMAIN pass[k].calls : pass[k].calls[i].res # "error"

\* The places of the listing of k that hold a pod in phase Pending or
\* Running with no deletion marker.
ListedAvailable(k) ==
    {i \in DOMAIN pass[k].podList :
        /\ pass[k].podList[i].phase \in {PodPending, PodRunning}
        /\ ~pass[k].podList[i].deleted}

\* C1: a pass that lists N available pods with desired count D < N and has
\* no failing delete call deletes exactly the first N-D pods of the available
\* list, in listing order, before it returns requeue.
C1_ScaleDownDeletesWholeExcess ==
    \A k \in DOMAIN pass :
        LET N == Cardinality(ListedAvailable(k))
            D == pass[k].instance.replicas
        IN  (Returned(k) /\ Listed(k) /\ N > D /\ pass[k].result = "requeue")
                => PodsOf(k, "delete") = [i \in 1..(N - D) |-> pass[k].available[i].id]

\* The stored status of K1 counts and names SampleReplicas pods, and the
\* store holds that many pods.
Converged ==
    /\ K1 \in DOMAIN podsets
    /\ podsets[K1].status.AvailableReplicas = SampleReplicas
    /\ Len(podsets[K1].status.PodNames.names) = SampleReplicas
    /\ Cardinality(DOMAIN pods) = SampleReplicas

\* C2: from a PodSet with desired count SampleReplicas and no pods, with no
\* store failure and every requeue honoured, the passes eventually reach a
\* stored status with availableReplicas = 3 and three podNames, with exactly
\* three pods in the store.
C2_ScaleUpConverges ==
    (podsets[K1].replicas = SampleReplicas /\ DOMAIN pods = {}) => <>Converged

\* The three pods are pods the controller created, and the pass that found
\* them has returned done.
C2_Witness ==
    /\ Converged
    /\ \A id \in DOMAIN pods : pods[id].name = <<"a-pod", id>>
    /\ Returned(K1) /\ pass[K1].result = "done"

\* C3 as claimed: with no change of the store from outside, every pass after
\* the first pass that completed without error returns done and makes no
\* create, delete or status-update call (store calls that fail set aside).
C3_DoneAfterFirstCompletedPass ==
    \A k \in DOMAIN pass :
        (hist[k].completed /\ pass[k].clean /\ Returned(k) /\ NoCallFailed(k))
            => /\ pass[k].result = "done"
               /\ Len(CallsOf(k, "create")) = 0
               /\ Len(CallsOf(k, "delete")) = 0
               /\ Len(CallsOf(k, "update")) = 0

\* C3 as amended: with no change of the store from outside, every pass after
\* the first pass that returned done makes no create and no delete call and
\* returns done, or the error of a store call that failed; it updates the
\* status only when the listing gives the same available pods in another
\* order.
C3_DoneAfterFirstDonePass ==
    \A k \in DOMAIN pass :
        LET p == pass[k] IN
        (hist[k].done /\ p.clean)
            => /\ Len(CallsOf(k, "create")) = 0 /\ p.pc # "create"
               /\ Len(CallsOf(k, "delete")) = 0 /\ p.pc # "delete"
               /\ p.pc = "update" =>
                      /\ ~p.instance.status.PodNames.isNil
                      /\ p.instance.status.AvailableReplicas = p.status.AvailableReplicas
                      /\ Range(p.instance.status.PodNames.names)
                             = Range(p.status.PodNames.names)
                      /\ p.instance.status.PodNames.names # p.status.PodNames.names
               /\ Returned(k) => p.result \in {"done", "error"}
               /\ Returned(k) => (p.result = "error" <=> ~NoCallFailed(k))

\* After a pass that returned done, a later pass has listed the same pods in
\* another order, rewritten the status and returned done.
C3_Witness ==
    \E k \in DOMAIN pass :
        /\ hist[k].done /\ pass[k].clean
        /\ Returned(k) /\ pass[k].result = "done"
        /\ Len(CallsOf(k, "update")) = 1
        /\ Len(pass[k].available) >= 2

\* C4: when a pass for an existing PodSet returns without error, the stored
\* status has availableReplicas equal to the number of pods of the pass's
\* listing that are Pending or Running with no deletion marker.
C4_StatusMatchesListing ==
    \A k \in DOMAIN pass :
        (Returned(k) /\ Listed(k) /\ pass[k].result # "error" /\ k \in DOMAIN podsets)
            => podsets[k].status.AvailableReplicas = Cardinality(ListedAvailable(k))

\* A pass has written a status and returned requeue, from a listing with
\* available pods and others.
C4_Witness ==
    \E k \in DOMAIN pass :
        /\ Returned(k) /\ pass[k].result = "requeue" /\ k \in DOMAIN podsets
        /\ Len(CallsOf(k, "update")) = 1
        /\ Cardinality(ListedAvailable(k)) >= 1
        /\ Len(pass[k].podList) > Cardinality(ListedAvailable(k))

\* C5: no pass makes both a create call and a delete call; a pass deletes
\* only with more available pods than desired, creates only with fewer, and
\* does neither when the two are equal.
C5_CreateOrDeleteNotBoth ==
    \A k \in DOMAIN pass :
        LET N == Cardinality(ListedAvailable(k))
            D == pass[k].instance.replicas
            deletes == Len(CallsOf(k, "delete"))
            creates == Len(CallsOf(k, "create"))
        IN  /\ ~(deletes > 0 /\ creates > 0)
            /\ (deletes > 0 \/ pass[k].pc = "delete") => N > D
            /\ (creates > 0 \/ pass[k].pc = "create") => N < D
            /\ (Listed(k) /\ N = D) => deletes = 0 /\ creates = 0

\* A pass has deleted a pod and returned.
C5_Witness ==
    \E k \in DOMAIN pass :
        /\ Returned(k) /\ pass[k].result = "requeue"
        /\ Len(CallsOf(k, "delete")) = 1 /\ Len(CallsOf(k, "create")) = 0

\* C6: a pass whose fetch of the PodSet reports NotFound returns done with
\* no requeue and no error, makes no other store call and leaves the store
\* as it is.
C6_NotFoundIsDone ==
    [][\A k \in DOMAIN pass :
          (Get(k) /\ k \notin DOMAIN podsets)
              => /\ pass'[k].pc = "returned"
                 /\ pass'[k].result = "done"
                 /\ pass'[k].calls = <<Call("get", 0, "notfound")>>
                 /\ ~queued'[k]
                 /\ podsets' = podsets /\ pods' = pods /\ nextId' = nextId]_vars

\* A pass found no PodSet and has returned, with pods in the store.
C6_Witness ==
    \E k \in DOMAIN pass :
        /\ Returned(k) /\ pass[k].result = "done"
        /\ pass[k].calls = <<Call("get", 0, "notfound")>>
        /\ DOMAIN pods # {}

\* The names in the stored status of k.
StoredNames(k) == Range(podsets[k].status.PodNames.names)

\* The pass of k has returned without error and its PodSet exists: the
\* stored status is the one the pass left.
Settled(k) == Returned(k) /\ pass[k].result # "error" /\ k \in DOMAIN podsets

\* C7: a listed pod with a deletion marker is not counted in
\* availableReplicas, not named in podNames and not chosen for deletion,
\* whatever its phase.
C7_MarkedPodsExcluded ==
    \A k \in DOMAIN pass :
        LET p == pass[k]
            unmarked == {i \in DOMAIN p.podList : ~p.podList[i].deleted}
        IN  /\ p.status.AvailableReplicas <= Cardinality(unmarked)
            /\ Settled(k) /\ Listed(k) =>
                   podsets[k].status.AvailableReplicas <= Cardinality(unmarked)
            /\ \A i \in DOMAIN p.podList :
                   p.podList[i].deleted =>
                       /\ p.podList[i].name \notin Range(p.status.PodNames.names)
                       /\ Settled(k) => p.podList[i].name \notin StoredNames(k)
                       /\ p.podList[i] \notin Range(p.available)
                       /\ p.podList[i].id \notin Range(PodsOf(k, "delete"))

\* A pass that deleted a pod had listed a Running pod marked for deletion.
C7_Witness ==
    \E k \in DOMAIN pass :
        /\ Returned(k) /\ pass[k].result = "requeue"
        /\ Len(CallsOf(k, "delete")) = 1
        /\ \E i \in DOMAIN pass[k].podList :
               pass[k].podList[i].deleted /\ pass[k].podList[i].phase = PodRunning

\* C8: a listed pod in a phase other than Pending and Running is not counted
\* in availableReplicas and not named in podNames, with or without a deletion
\* marker.
C8_OtherPhasesExcluded ==
    \A k \in DOMAIN pass :
        LET p == pass[k]
            live == {i \in DOMAIN p.podList :
                        p.podList[i].phase \in {PodPending, PodRunning}}
        IN  /\ p.status.AvailableReplicas <= Cardinality(live)
            /\ Settled(k) /\ Listed(k) =>
                   podsets[k].status.AvailableReplicas <= Cardinality(live)
            /\ \A i \in DOMAIN p.podList :
                   p.podList[i].phase \in {PodFailed, PodSucceeded, PodUnknown} =>
                       /\ p.podList[i].name \notin Range(p.status.PodNames.names)
                       /\ Settled(k) => p.podList[i].name \notin StoredNames(k)

\* A pass has returned from a listing with a Failed pod, a Succeeded pod
\* marked for deletion and an available pod.
C8_Witness ==
    \E k \in DOMAIN pass :
        /\ Settled(k)
        /\ Len(CallsOf(k, "update")) = 1
        /\ \E i, j, a \in DOMAIN pass[k].podList :
               /\ pass[k].podList[i].phase = PodFailed /\ ~pass[k].podList[i].deleted
               /\ pass[k].podList[j].phase = PodSucceeded /\ pass[k].podList[j].deleted
               /\ a \in ListedAvailable(k)

\* The pods in the store that a pass created for PodSet k: the controller
\* owner is k and the name is a generated one.
CreatedFor(k) ==
    {id \in DOMAIN pods :
        pods[id].owner = {k} /\ pods[id].name = <<k.name \o "-pod", id>>}

\* The pod is in k's namespace and carries k's two ownership labels.
InFilter(k, pod) ==
    /\ pod.namespace = k.namespace
    /\ "app" \in DOMAIN pod.labels /\ pod.labels["app"] = k.name
    /\ "version" \in DOMAIN pod.labels /\ pod.labels["version"] = "v0.1"

\* C9: every pod that a pass creates for PodSet P is in P's namespace and
\* carries exactly the labels app: P.name and version: v0.1, and every
\* listing of a pass for P returns every pod created for P that is still in
\* the store.
C9_CreatedPodsAreListed ==
    [][\A k \in DOMAIN pass :
          /\ \A id \in CreatedFor(k)' :
                 /\ pods'[id].namespace = k.namespace
                 /\ pods'[id].labels = [app |-> k.name, version |-> "v0.1"]
          /\ List(k) =>
                 \A id \in CreatedFor(k) :
                     \E i \in DOMAIN pass'[k].podList : pass'[k].podList[i].id = id]_vars

\* A pass has listed a pod that an earlier pass created, next to pods that
\* were there from the start.
C9_Witness ==
    \E k \in DOMAIN pass :
        /\ Listed(k)
        /\ \E i, j \in DOMAIN pass[k].podList :
               /\ pass[k].podList[i].id \in CreatedFor(k)
               /\ pass[k].podList[j].name = <<"pod", pass[k].podList[j].id>>

\* C10: a pass for PodSet P lists, counts, names in the status and deletes
\* only pods in P's namespace with the labels app: P.name and version: v0.1;
\* no other pod is changed by a pass for P.
C10_OnlyOwnPods ==
    [][\A k \in DOMAIN pass :
          LET p == pass'[k]
              own == {i \in DOMAIN p.podList : InFilter(k, p.podList[i])}
          IN  /\ own = DOMAIN p.podList
              /\ p.status.AvailableReplicas <= Cardinality(own)
              /\ \A n \in Range(p.status.PodNames.names) :
                     \E i \in own : p.podList[i].name = n
              /\ \A id \in Range(PodsOf(k, "delete"))' :
                     \E i \in own : p.podList[i].id = id
              /\ k \in DOMAIN podsets' /\ podsets'[k] # podsets[k] =>
                     \A n \in Range(podsets'[k].status.PodNames.names) :
                         \E i \in own : p.podList[i].name = n
              /\ pass[k].pc = "delete" /\ p.pc # "delete" =>
                     \A id \in DOMAIN pods :
                         ~InFilter(k, pods[id]) => pods'[id] = pods[id]]_vars

\* A pass has deleted a pod of its own while the store held a pod with the
\* same labels in another namespace and a pod with another version label.
C10_Witness ==
    \E k \in DOMAIN pass :
        /\ Returned(k) /\ pass[k].result = "requeue"
        /\ Len(CallsOf(k, "delete")) = 1
        /\ \E id \in DOMAIN pods :
               /\ pods[id].namespace # k.namespace
               /\ pods[id].labels = [app |-> k.name, version |-> "v0.1"]
               /\ ~pods[id].deleted

\* C11: no pass makes two create calls; a pass that lists fewer available
\* pods than desired and returns without error has made exactly one create
\* call, which succeeded, whatever the deficit, and returns requeue.
C11_OneCreatePerPass ==
    \A k \in DOMAIN pass :
        LET N == Cardinality(ListedAvailable(k))
            D == pass[k].instance.replicas
            creates == CallsOf(k, "create")
        IN  /\ Len(creates) <= 1
            /\ (Returned(k) /\ Listed(k) /\ N < D /\ pass[k].result # "error")
                   => /\ Len(creates) = 1
                      /\ creates[1].res = "ok"
                      /\ pass[k].result = "requeue"

\* A pass that listed at least two pods fewer than desired has created one
\* pod and returned requeue.
C11_Witness ==
    \E k \in DOMAIN pass :
        /\ Returned(k) /\ pass[k].result = "requeue"
        /\ Len(CallsOf(k, "create")) = 1
        /\ pass[k].instance.replicas - Cardinality(ListedAvailable(k)) >= 2

\* C12: a returned pass whose delete calls all succeeded returns requeue; a
\* returned pass whose create call succeeded returns requeue; a returned pass
\* that listed as many available pods as desired, with no failed call,
\* returns done and has made no create and no delete call.
C12_ResultSignal ==
    \A k \in DOMAIN pass :
        LET N == Cardinality(ListedAvailable(k))
            D == pass[k].instance.replicas
            deletes == CallsOf(k, "delete")
            creates == CallsOf(k, "create")
        IN  Returned(k) =>
              /\ (Len(deletes) > 0 /\ \A i \in DOMAIN deletes : deletes[i].res = "ok")
                     => pass[k].result = "requeue"
              /\ (Len(creates) > 0 /\ \A i \in DOMAIN creates : creates[i].res = "ok")
                     => pass[k].result = "requeue"
              /\ (Listed(k) /\ N = D /\ NoCallFailed(k))
                     => /\ pass[k].result = "done"
                        /\ Len(deletes) = 0
                        /\ Len(creates) = 0

\* A pass has found two available pods, as many as desired, written the
\* status and returned done.
C12_Witness ==
    \E k \in DOMAIN pass :
        /\ Returned(k) /\ pass[k].result = "done"
        /\ Cardinality(ListedAvailable(k)) = pass[k].instance.replicas
        /\ pass[k].instance.replicas >= 2
        /\ Len(CallsOf(k, "update")) = 1 /\ NoCallFailed(k)

\* A call of kind op of the pass of k has failed.
Failed(k, op) ==
    \E i \in DOMAIN pass[k].calls :
        pass[k].calls[i].op = op /\ pass[k].calls[i].res = "error"

\* The step is the return of call op of the pass of k with outcome res.
CallReturns(k, op, res) ==
    /\ Len(pass'[k].calls) = Len(pass[k].calls) + 1
    /\ pass'[k].calls[Len(pass'[k].calls)] = Call(op, 0, res)

\* C13 as claimed: a returned pass whose status update failed, with a listing
\* of more or fewer available pods than desired, has attempted its corrective
\* action: it has made a create or a delete call.
C13_ActionAfterFailedUpdate ==
    \A k \in DOMAIN pass :
        (Returned(k) /\ Failed(k, "update")
            /\ Cardinality(ListedAvailable(k)) # pass[k].instance.replicas)
            => Len(CallsOf(k, "create")) + Len(CallsOf(k, "delete")) >= 1

\* C13 as amended: a pass whose status update failed has returned the error
\* with the failed update as its last call; it has made no create and no
\* delete call, and the stored status is not the one it computed.
C13_NoActionAfterFailedUpdate ==
    \A k \in DOMAIN pass :
        Failed(k, "update")
            => /\ Returned(k) /\ pass[k].result = "error"
               /\ pass[k].calls[Len(pass[k].calls)] = Call("update", 0, "error")
               /\ Len(CallsOf(k, "create")) = 0
               /\ Len(CallsOf(k, "delete")) = 0
               /\ k \in DOMAIN podsets
                      => ~DeepEqual(podsets[k].status, pass[k].status)

\* A pass that listed more available pods than desired has returned after
\* its status update failed.
C13_Witness ==
    \E k \in DOMAIN pass :
        /\ Returned(k) /\ Failed(k, "update")
        /\ Cardinality(ListedAvailable(k)) > pass[k].instance.replicas

\* C14: the step in which the status update of a pass fails returns the
\* error (not done, not requeue), the dispatcher has the key queued again, and
\* the store, the stored status with it, is as before.
C14_FailedUpdateReturnsError ==
    [][\A k \in DOMAIN pass :
          (pass[k].pc = "update" /\ CallReturns(k, "update", "error"))
              => /\ pass'[k].pc = "returned"
                 /\ pass'[k].result = "error"
                 /\ queued'[k]
                 /\ podsets' = podsets /\ pods' = pods /\ nextId' = nextId]_vars

\* After a pass that wrote a status, the status update of a later pass has
\* failed: the stored status still counts what the earlier pass counted.
C14_Witness ==
    \E k \in DOMAIN pass :
        /\ Returned(k) /\ pass[k].result = "error" /\ Failed(k, "update")
        /\ k \in DOMAIN podsets
        /\ ~podsets[k].status.PodNames.isNil
        /\ podsets[k].status.AvailableReplicas # pass[k].status.AvailableReplicas

\* C15: the step in which the pod listing of a pass fails returns the error;
\* the pass has made no call but the fetch and the listing (no status update,
\* no create, no delete), and the store is as before.
C15_ListFailureNoAction ==
    [][\A k \in DOMAIN pass :
          (pass[k].pc = "list" /\ CallReturns(k, "list", "error"))
              => /\ pass'[k].pc = "returned"
                 /\ pass'[k].result = "error"
                 /\ pass'[k].calls = <<Call("get", 0, "ok"), Call("list", 0, "error")>>
                 /\ podsets' = podsets /\ pods' = pods /\ nextId' = nextId]_vars

\* The listing of a pass has failed for a new PodSet with pods in the store.
C15_Witness ==
    \E k \in DOMAIN pass :
        /\ Returned(k) /\ Failed(k, "list")
        /\ k \in DOMAIN podsets /\ podsets[k].status = EmptyStatus
        /\ \E id \in DOMAIN pods : IsAvailable(pods[id])

\* C16: a pass in which a delete call failed has returned the error with that
\* call as its last, and the delete calls before it succeeded on the first
\* pods of the available list; a later pass, after a pass in which a delete
\* failed, that lists N available pods with desired count D < N and has no
\* failing call deletes the remaining excess, the first N-D pods of its
\* fresh listing.
C16_LaterPassDeletesRemainingExcess ==
    \A k \in DOMAIN pass :
        LET p == pass[k]
            N == Cardinality(ListedAvailable(k))
            D == p.instance.replicas
            deletes == CallsOf(k, "delete")
        IN  /\ Failed(k, "delete")
                => /\ Returned(k) /\ p.result = "error"
                   /\ p.calls[Len(p.calls)].op = "delete"
                   /\ \A i \in 1..(Len(deletes) - 1) :
                          deletes[i] = Call("delete", p.available[i].id, "ok")
            /\ (hist[k].deleteFailed /\ p.clean /\ Returned(k) /\ Listed(k)
                    /\ N > D /\ p.result = "requeue")
                => PodsOf(k, "delete") = [i \in 1..(N - D) |-> p.available[i].id]

\* The pods of the store that are in the reach of the list options of j.
PodsInFilter(j, store) == {store[id] : id \in {i \in DOMAIN store : InFilter(j, store[i])}}

\* C17: a step of the pass of one PodSet leaves the other PodSet, its stored
\* status, its pass, its queue entry and every pod in its reach as they are,
\* and lists no pod in the other's reach; a pass that returns done leaves as
\* many available pods in its own reach as its PodSet desires, counted in its
\* stored status, whatever the other pass has done meanwhile.
C17_PodSetsIsolated ==
    /\ [][\A k \in DOMAIN pass : pass'[k] # pass[k] =>
            \A j \in DOMAIN pass \ {k} :
                /\ pass'[j] = pass[j]
                /\ queued'[j] = queued[j]
                /\ j \in DOMAIN podsets' /\ podsets'[j] = podsets[j]
                /\ PodsInFilter(j, pods') = PodsInFilter(j, pods)
                /\ \A i \in DOMAIN pass'[k].podList :
                       ~InFilter(j, pass'[k].podList[i])]_vars
    /\ [](\A k \in DOMAIN pass :
            (Returned(k) /\ pass[k].result = "done") =>
                LET own == {pod \in PodsInFilter(k, pods) : IsAvailable(pod)}
                IN  /\ Cardinality(own) = podsets[k].replicas
                    /\ podsets[k].status.AvailableReplicas = Cardinality(own)
                    /\ Range(podsets[k].status.PodNames.names)
                           = {pod.name : pod \in own})

\* The pass of one PodSet has deleted a pod and returned while the pass of
\* the other, after its listing, is about to create one.
C17_Witness ==
    \E k, j \in DOMAIN pass :
        /\ k # j
        /\ Returned(k) /\ pass[k].result = "requeue" /\ Len(CallsOf(k, "delete")) = 1
        /\ pass[j].pc = "create" /\ Listed(j)

\* PodSet K1 has d available pods, and its stored status counts and names d.
ConvergedAt(d) ==
    /\ K1 \in DOMAIN podsets
    /\ Cardinality(AvailableIds(K1)) = d
    /\ podsets[K1].status.AvailableReplicas = d
    /\ Len(podsets[K1].status.PodNames.names) = d

\* C18: whenever PodSet K1 is converged at a count below its desired count d
\* (its desired count has been raised to d), with no store failure and every
\* requeue and change trigger honoured, the passes eventually reach exactly d
\* available pods and a stored status with availableReplicas = d.
C18_ScaleUpAfterRaise ==
    \A d \in Desired :
        [](((\E c \in 0..(d - 1) : ConvergedAt(c)) /\ podsets[K1].replicas = d)
              => <>(ConvergedAt(d) /\ podsets[K1].replicas = d))

\* A pass has found the stored status up to date with at least one available
\* pod, fewer than the desired count now asks for, and has created a pod: the
\* count was raised after an earlier pass had converged.
C18_Witness ==
    /\ Returned(K1) /\ pass[K1].result = "requeue"
    /\ Len(CallsOf(K1, "create")) = 1
    /\ Len(CallsOf(K1, "update")) = 0
    /\ Len(pass[K1].available) >= 1
    /\ pass[K1].instance.status.AvailableReplicas = Len(pass[K1].available)

\* C19: every pod that enters the store comes from the create call of a pass
\* and carries the controller reference of the PodSet of that pass; and once
\* PodSet K1 is deleted, the store's cascading deletion eventually leaves no
\* pod that a pass created for K1.
C19_CreatedPodsOwnedAndCollected ==
    /\ [][\A id \in DOMAIN pods' \ DOMAIN pods :
            \E k \in DOMAIN pass :
                /\ pass[k].pc = "create"
                /\ pods'[id].name = <<k.name \o "-pod", id>>
                /\ pods'[id].owner = {k}]_vars
    /\ (K1 \notin DOMAIN podsets)
          ~> (\A id \in DOMAIN pods : pods[id].name # <<K1.name \o "-pod", id>>)

\* The PodSet is gone, and so is the pod that the last pass created for it.
C19_Witness ==
    /\ K1 \notin DOMAIN podsets
    /\ Returned(K1)
    /\ \E i \in DOMAIN pass[K1].calls :
           /\ pass[K1].calls[i].op = "create" /\ pass[K1].calls[i].res = "ok"
           /\ pass[K1].calls[i].id \notin DOMAIN pods
    /\ \A id \in DOMAIN pods : pods[id].name # <<K1.name \o "-pod", id>>

\* The step is a step of the pass of k (a change by another actor touches
\* nothing of a pass but its clean mark).
PassStep(k) == [pass'[k] EXCEPT !.clean = pass[k].clean] # pass[k]

\* C20: a step of a pass leaves spec.replicas of every PodSet in the store
\* as it is and neither adds nor removes a PodSet; the only step of a pass
\* that changes a PodSet is a status update that succeeds, and it changes
\* the status of the pass's own PodSet only.
C20_SpecNeverWritten ==
    [][\A k \in DOMAIN pass : PassStep(k) =>
          /\ DOMAIN podsets' = DOMAIN podsets
          /\ \A j \in DOMAIN podsets : podsets'[j].replicas = podsets[j].replicas
          /\ podsets' # podsets =>
                 /\ pass[k].pc = "update"
                 /\ CallReturns(k, "update", "ok")
                 /\ podsets' = [podsets EXCEPT ![k].status = pass[k].status]]_vars

\* A pass has written the status after the desired count was patched behind
\* its back: the stored count is not the one the pass fetched.
C20_Witness ==
    \E k \in DOMAIN pass :
        /\ k \in DOMAIN podsets
        /\ \E i \in DOMAIN pass[k].calls : pass[k].calls[i] = Call("update", 0, "ok")
        /\ podsets[k].status = pass[k].status
        /\ podsets[k].replicas # pass[k].instance.replicas

\* C21: in the call log of every pass, no status update follows a create or
\* a delete call, and a create or delete call is preceded by every status
\* update of the pass, each of which has succeeded.
C21_StatusBeforeAction ==
    \A k \in DOMAIN pass :
        LET calls == pass[k].calls IN
        \A i, j \in DOMAIN calls :
            (calls[i].op \in {"create", "delete"} /\ calls[j].op = "update")
                => (j < i /\ calls[j].res = "ok")

\* A pass has written the status, then deleted a pod, and returned.
C21_Witness ==
    \E k \in DOMAIN pass :
        /\ Returned(k)
        /\ Len(pass[k].calls) = 4
        /\ pass[k].calls[3] = Call("update", 0, "ok")
        /\ pass[k].calls[4].op = "delete" /\ pass[k].calls[4].res = "ok"

\* The stored status of k counts and names the available pods of the store
\* in k's reach.
StatusFresh(k) ==
    /\ k \in DOMAIN podsets
    /\ podsets[k].status.AvailableReplicas = Cardinality(AvailableIds(k))
    /\ Len(podsets[k].status.PodNames.names) = Cardinality(AvailableIds(k))
    /\ StoredNames(k) = {pods[id].name : id \in AvailableIds(k)}

\* C22: if from some point on no store call fails, the controller does not
\* crash and the pods do not change (the steps are those of passes whose
\* calls succeed, and triggers), then from some point on the stored status
\* counts and names the available pods of the store: a status left stale by
\* a pass that stopped, or by a change of the pods, does not stay stale.
C22_StatusSelfHeals ==
    <>[][Reconcile \/ \E k \in DOMAIN pass : Trigger(k)]_vars
        => <>[]StatusFresh(K1)

\* A pod that a pass created has failed since, and a later pass has
\* rewritten the status, which is up to date and names another pod.
C22_Witness ==
    /\ StatusFresh(K1)
    /\ Returned(K1)
    /\ \E i \in DOMAIN pass[K1].calls : pass[K1].calls[i] = Call("update", 0, "ok")
    /\ \E id \in DOMAIN pods :
           pods[id].name = <<K1.name \o "-pod", id>> /\ pods[id].phase = PodFailed
    /\ podsets[K1].status.AvailableReplicas >= 1

\* C24: the step in which the listing of a pass returns leads to a status
\* update exactly when the status computed from the listing differs from the
\* status of the PodSet as fetched; a status update is issued by no other
\* path, and at most once in a pass.
C24_StatusWrittenIffChanged ==
    [][\A k \in DOMAIN pass :
          /\ (pass[k].pc = "list" /\ CallReturns(k, "list", "ok"))
                 => (pass'[k].pc = "update"
                        <=> pass'[k].status # pass[k].instance.status)
          /\ Len(CallsOf(k, "update"))' > Len(CallsOf(k, "update"))
                 => /\ pass[k].pc = "update"
                    /\ pass[k].status # pass[k].instance.status
                    /\ Len(CallsOf(k, "update")) = 0]_vars

\* A pass has found the status of the fetched PodSet equal to the one it
\* computed from a listing with available pods, and has returned without a
\* status update.
C24_Witness ==
    \E k \in DOMAIN pass :
        /\ Returned(k) /\ Listed(k)
        /\ Len(CallsOf(k, "update")) = 0
        /\ Len(pass[k].available) >= 1
        /\ pass[k].instance.status = pass[k].status

\* The i-th place, in listing order, of the listing of k that holds an
\* available pod.
NthAvailable(k, i) ==
    CHOOSE j \in ListedAvailable(k) :
        Cardinality({m \in ListedAvailable(k) : m <= j}) = i

\* C25: in every pass that has its listing, podNames is a list (not nil) of
\* the names of the listed pods with no deletion marker and phase Pending or
\* Running, in listing order, and availableReplicas is its length; from a
\* listing without pods the pass computes [] and 0 and goes on without an
\* error.
C25_ComputedStatusShape ==
    /\ [](\A k \in DOMAIN pass :
            Listed(k) =>
                LET p == pass[k]
                    n == Cardinality(ListedAvailable(k))
                IN  /\ ~p.status.PodNames.isNil
                    /\ p.status.PodNames.names
                           = [i \in 1..n |-> p.podList[NthAvailable(k, i)].name]
                    /\ p.status.AvailableReplicas = Len(p.status.PodNames.names)
                    /\ Len(p.podList) = 0
                           => p.status = [PodNames |-> [isNil |-> FALSE, names |-> <<>>],
                                          AvailableReplicas |-> 0])
    /\ [][\A k \in DOMAIN pass :
            (pass[k].pc = "list" /\ CallReturns(k, "list", "ok")
                /\ Len(pass'[k].podList) = 0)
                => pass'[k].pc \in {"update", "create"}]_vars

\* A pass has computed two names from a listing of three pods, the one in
\* the middle not available.
C25_Witness ==
    \E k \in DOMAIN pass :
        /\ Listed(k)
        /\ Len(pass[k].podList) = 3
        /\ ListedAvailable(k) = {1, 3}

\* C26: the step in which the creation of a pass fails (the create call
\* fails, or no create call is issued because the owner reference could not
\* be attached) returns the error, not requeue; no pod is added, and the
\* store, with the status the pass has written, is as before.
C26_CreateFailureReturnsError ==
    [][\A k \in DOMAIN pass :
          (/\ pass[k].pc = "create"
           /\ pass'[k].pc = "returned"
           /\ \/ pass'[k].calls = pass[k].calls
              \/ /\ Len(pass'[k].calls) = Len(pass[k].calls) + 1
                 /\ pass'[k].calls[Len(pass'[k].calls)].res # "ok")
              => /\ pass'[k].result = "error"
                 /\ pods' = pods /\ nextId' = nextId
                 /\ podsets' = podsets
                 /\ (k \in DOMAIN podsets /\ Len(CallsOf(k, "update")) = 1)
                        => podsets'[k].status = pass[k].status]_vars

\* A pass has written the status and returned the error of its create
\* call; the store holds the status it wrote.
C26_Witness ==
    \E k \in DOMAIN pass :
        /\ Returned(k) /\ pass[k].result = "error"
        /\ Len(pass[k].calls) = 4
        /\ pass[k].calls[3] = Call("update", 0, "ok")
        /\ pass[k].calls[4] = Call("create", 0, "error")
        /\ k \in DOMAIN podsets /\ podsets[k].status = pass[k].status
        /\ Len(pass[k].available) >= 1

\* C27: whenever PodSet K1 has more available pods than its desired count d,
\* with no store failure and every requeue honoured, the passes eventually
\* reach exactly d available pods and a pass that has returned done,
\* whichever order the listings come in.
C27_ScaleDownConverges ==
    \A d \in Desired :
        []((podsets[K1].replicas = d /\ Cardinality(AvailableIds(K1)) > d)
              => <>(/\ Cardinality(AvailableIds(K1)) = d
                    /\ Returned(K1) /\ pass[K1].result = "done"))

\* Passes have deleted two pods, one pod is left available as desired, and
\* the last pass has returned done.
C27_Witness ==
    /\ Returned(K1) /\ pass[K1].result = "done"
    /\ Cardinality(AvailableIds(K1)) = podsets[K1].replicas
    /\ Cardinality({id \in DOMAIN pods : pods[id].deleted}) >= 2

\* C28: a pass that lists N available pods with desired count D makes at
\* most N-D delete calls when D < N and none otherwise, so at least D of the
\* available pods of its listing are left undeleted; and no step of a pass
\* that deletes leaves fewer than D available pods in the store.
C28_NoOverDeletion ==
    /\ [](\A k \in DOMAIN pass :
            LET N == Cardinality(ListedAvailable(k))
                D == pass[k].instance.replicas
                deleted == Range(PodsOf(k, "delete"))
            IN  Listed(k) =>
                  /\ Len(CallsOf(k, "delete")) <= (IF N > D THEN N - D ELSE 0)
                  /\ N > D =>
                         Cardinality({i \in ListedAvailable(k) :
                                         pass[k].podList[i].id \notin deleted}) >= D)
    /\ [][\A k \in DOMAIN pass :
            Len(CallsOf(k, "delete"))' > Len(CallsOf(k, "delete"))
                => Cardinality(AvailableIds(k))' >= pass[k].instance.replicas]_vars

\* A pass that listed one available pod more than desired has deleted one
\* pod, and as many available pods as desired are left.
C28_Witness ==
    \E k \in DOMAIN pass :
        /\ Returned(k) /\ pass[k].result = "requeue"
        /\ Len(CallsOf(k, "delete")) = 1
        /\ Cardinality(ListedAvailable(k)) = pass[k].instance.replicas + 1
        /\ Cardinality(AvailableIds(k)) = pass[k].instance.replicas

\* C29: with serialized passes, listings that reflect every earlier create
\* and delete and an unchanged desired count D, a step from a state with at
\* most D available pods leads to a state with at most D available pods; and
\* the pass that creates a pod has listed fewer than D available pods.
C29_NoOvershoot ==
    [][/\ Cardinality(AvailableIds(K1)) <= podsets[K1].replicas
            => Cardinality(AvailableIds(K1))' <= podsets'[K1].replicas
       /\ Len(CallsOf(K1, "create"))' > Len(CallsOf(K1, "create"))
            => Len(pass[K1].available) < podsets[K1].replicas]_vars

\* Next to a pod that was there from the start, two creations have brought
\* the available count to the desired one, no pod was deleted, and a later
\* pass has returned done.
C29_Witness ==
    /\ Cardinality(AvailableIds(K1)) = podsets[K1].replicas
    /\ \E id \in DOMAIN pods : pods[id].name = <<"pod", id>>
    /\ Cardinality({id \in DOMAIN pods : pods[id].name = <<K1.name \o "-pod", id>>}) >= 2
    /\ \A id \in DOMAIN pods : ~pods[id].deleted
    /\ Returned(K1) /\ pass[K1].result = "done"

\* The pods in the reach of k that are not available.
LostIds(k) == {id \in DOMAIN pods : InFilter(k, pods[id])} \ AvailableIds(k)

\* C30: whenever PodSet K1 has fewer available pods than desired next to a
\* pod that is no longer available (Failed, Succeeded, Unknown or marked for
\* deletion), with triggers honoured and no store failure, the passes
\* eventually reach as many available pods as desired and a stored status
\* that counts and names them.
C30_LostPodsReplaced ==
    []((/\ K1 \in DOMAIN podsets
        /\ Cardinality(AvailableIds(K1)) < podsets[K1].replicas
        /\ LostIds(K1) # {})
          => <>(/\ Cardinality(AvailableIds(K1)) = podsets[K1].replicas
                /\ StatusFresh(K1)))

\* A pod has ended or become unknown, a pass has created a replacement, and
\* the status counts and names as many available pods as desired.
C30_Witness ==
    /\ StatusFresh(K1)
    /\ Cardinality(AvailableIds(K1)) = podsets[K1].replicas
    /\ \E id \in LostIds(K1) : pods[id].phase \in {PodSucceeded, PodUnknown}
    /\ \E id \in AvailableIds(K1) : pods[id].name = <<K1.name \o "-pod", id>>
    /\ Returned(K1) /\ pass[K1].result = "done"

\* A pod that is not available: in a phase other than Pending and Running,
\* or marked for deletion.
Unavailable(pod) == pod.phase \in {PodFailed, PodSucceeded, PodUnknown} \/ pod.deleted

\* C31: every pod that a delete call of a pass is about was in that pass's
\* listing in phase Pending or Running with no deletion marker, so no delete
\* call is about a listed Failed, Succeeded or Unknown pod or a listed pod
\* marked for deletion; and no step of a pass changes or removes a pod of
\* the store that is in one of these phases or marked for deletion.
C31_OnlyAvailablePodsDeleted ==
    /\ [](\A k \in DOMAIN pass :
            /\ \A i \in DOMAIN CallsOf(k, "delete") :
                   \E j \in ListedAvailable(k) :
                       pass[k].podList[j].id = CallsOf(k, "delete")[i].id
            /\ \A j \in DOMAIN pass[k].podList :
                   Unavailable(pass[k].podList[j]) =>
                       pass[k].podList[j].id \notin Range(PodsOf(k, "delete")))
    /\ [][(\E k \in DOMAIN pass : PassStep(k)) =>
            \A id \in DOMAIN pods :
                Unavailable(pods[id]) => id \in DOMAIN pods' /\ pods'[id] = pods[id]]_vars

\* A pass that listed a Failed pod and a pod marked for deletion next to
\* more available pods than desired has deleted an available pod, and the
\* Failed pod and the marked pod are in the store as they were listed.
C31_Witness ==
    \E k \in DOMAIN pass :
        /\ Returned(k) /\ pass[k].result = "requeue"
        /\ Len(CallsOf(k, "delete")) = 1
        /\ \E j \in DOMAIN pass[k].podList :
               LET pod == pass[k].podList[j] IN
               /\ Unavailable(pod)
               /\ pod.id \in DOMAIN pods /\ pods[pod.id] = pod
        /\ \E j \in ListedAvailable(k) :
               /\ pass[k].podList[j].id = PodsOf(k, "delete")[1]
               /\ pass[k].podList[j].id \in DOMAIN pods
               /\ pods[pass[k].podList[j].id].deleted

\* C32: a pass whose fetch of the PodSet failed with an error other than
\* NotFound has returned that error and has made no other call: no listing,
\* no status update, no create and no delete; the step in which the fetch
\* fails leaves the store as it is and the key on the queue.
C32_FetchFailureReturnsError ==
    /\ [](\A k \in DOMAIN pass :
            Failed(k, "get") =>
                /\ Returned(k)
                /\ pass[k].result = "error"
                /\ pass[k].calls = <<Call("get", 0, "error")>>)
    /\ [][\A k \in DOMAIN pass :
            (PassStep(k) /\ Failed(k, "get")') =>
                /\ podsets' = podsets /\ pods' = pods /\ nextId' = nextId
                /\ queued'[k]]_vars

\* The fetch of a pass has failed for a PodSet in the store with a written
\* status whose available pods are more or fewer than desired, and the key
\* is on the queue again.
C32_Witness ==
    \E k \in DOMAIN pass :
        /\ Failed(k, "get")
        /\ k \in DOMAIN podsets
        /\ Cardinality(AvailableIds(k)) # podsets[k].replicas
        /\ podsets[k].status # EmptyStatus
        /\ queued[k]

====
